---- MODULE Spec2Model ----
(***************************************************************************)
(* Model of the download orchestrator of src/src/downloadManager.ts:       *)
(* runDownloadTask (bounded worker pool over a shared queue),              *)
(* downloadWithRetry (retry loop with exponential backoff) and             *)
(* updateProgress (snapshots handed to the onProgress observer).           *)
(*                                                                         *)
(* JavaScript runs the code between two awaits without interruption, so    *)
(* one action is one such run: the synchronous prefix of runDownloadTask,  *)
(* the continuation after a settled downloadFile, after an expired sleep,  *)
(* after a settled downloadWithRetry, after a nested processNext, and      *)
(* after Promise.all.                                                      *)
(*                                                                         *)
(* Objects are cells of a heap: requests, queue, snapshot entries and the  *)
(* result hold addresses, so aliasing between the live entries and what    *)
(* the observer receives is expressible.                                   *)
(***************************************************************************)
EXTENDS Integers, Sequences, FiniteSets, TLC

\* Bounds of the model.
MaxUrls == 2
MaxConcurrency == 2
MaxRetriesBound == 1

\* Input domains.
RetryDelays == {100}
FailureMessages == {"HTTP 404", "Failed to fetch"}

\* The value of an absent optional field (error?: string).
Undefined == "undefined"

\* The URL lists tried: every length up to MaxUrls, the two URLs alternating
\* (the orchestrator never compares URLs).
UrlLists ==
    {[i \in 1..n |-> IF i % 2 = 1 THEN "https://a/b/c.png" ELSE "https://a/b/"] :
        n \in 0..MaxUrls}

\* new URL(url).pathname.split('/').filter(Boolean), as a table over the URLs of UrlLists.
PathSegments(url) ==
    CASE url = "https://a/b/c.png" -> <<"b", "c.png">>
      [] url = "https://a/b/" -> <<"b">>
      [] OTHER -> <<>>

\* last.includes('.'), as a table over their segments.
IncludesDot(segment) == segment \in {"c.png"}

\* inferFilename(url, index), index 0-based as in the source.
inferFilename(url, index) ==
    LET pathname == PathSegments(url)
    IN IF pathname # <<>> /\ IncludesDot(pathname[Len(pathname)])
       THEN pathname[Len(pathname)]
       ELSE "download-" \o ToString(index + 1) \o ".jpg"

\* createTaskId(): a token unique within the batch; the position stands for it.
createTaskId(index) == index + 1

VARIABLES
    phase,      \* runDownloadTask: "init" | "running" | "returned" | "threw"
    opts,       \* mergedOptions
    heap,       \* sequence of DownloadRequest objects, address = index
    requests,   \* the live entries: sequence of addresses
    queue,      \* the shared queue: sequence of addresses
    active,     \* the counter `active`
    workers,    \* one record per processNext chain started by Array.from
    log,        \* the snapshots delivered to onProgress, in delivery order
    result,     \* the DownloadResult returned, or NoResult
    dispatched, \* history: per request, how many times it was shifted off the queue
    transfers,  \* history: per request, how many downloadFile calls were made
    waits,      \* history: per request, the sleep() durations, in order
    tampered,   \* history: how many writes the observer made to what it received
    app         \* DownloadApp: its state object, the two buttons, and startTask's locals

vars == <<phase, opts, heap, requests, queue, active, workers, log, result,
          dispatched, transfers, waits, tampered, app>>

NoResult == [successes |-> <<>>, failures |-> <<>>, none |-> TRUE]
NoOptions == [concurrency |-> 0, maxRetries |-> 0, retryDelayMs |-> 0, onProgress |-> FALSE]

\* The mutable state touched by the synchronous code, as one record.
Machine ==
    [heap |-> heap, requests |-> requests, queue |-> queue, active |-> active,
     workers |-> workers, log |-> log, dispatched |-> dispatched,
     transfers |-> transfers, waits |-> waits]

Commit(M) ==
    /\ heap' = M.heap
    /\ requests' = M.requests
    /\ queue' = M.queue
    /\ active' = M.active
    /\ workers' = M.workers
    /\ log' = M.log
    /\ dispatched' = M.dispatched
    /\ transfers' = M.transfers
    /\ waits' = M.waits

N == Len(requests)
Req(i) == heap[requests[i]]
Terminal(status) == status \in {"success", "failed"}

\* requests.filter((entry) => entry.status === status), on addresses.
RECURSIVE FilterStatus(_, _, _)
FilterStatus(h, addrs, status) ==
    IF addrs = <<>> THEN <<>>
    ELSE IF h[Head(addrs)].status = status
         THEN <<Head(addrs)>> \o FilterStatus(h, Tail(addrs), status)
         ELSE FilterStatus(h, Tail(addrs), status)

\* CopyEntries handing out the live objects themselves (entries: requests).
CopyEntriesShared(h, addrs) == [heap |-> h, entries |-> addrs]

\* requests.map((entry) => ({ ...entry })): fresh objects holding the field values.
CopyEntries(h, addrs) ==
    [heap |-> h \o [i \in 1..Len(addrs) |-> h[addrs[i]]],
     entries |-> [i \in 1..Len(addrs) |-> Len(h) + i]]

\* Snapshot counting only the successes as completed.
SnapshotSuccessesOnly(h, addrs, entries, status) ==
    LET successes == Len(FilterStatus(h, addrs, "success"))
        failures == Len(FilterStatus(h, addrs, "failed"))
    IN [total |-> Len(addrs),
        completed |-> successes,
        successes |-> successes,
        failures |-> failures,
        entries |-> entries,
        status |-> status]

\* The snapshot object built by updateProgress.
Snapshot(h, addrs, entries, status) ==
    LET successes == Len(FilterStatus(h, addrs, "success"))
        failures == Len(FilterStatus(h, addrs, "failed"))
    IN [total |-> Len(addrs),
        completed |-> successes + failures,
        successes |-> successes,
        failures |-> failures,
        entries |-> entries,
        status |-> status]

\* updateProgress(requests, status, onProgress)
updateProgress(M, status, o) ==
    IF ~o.onProgress THEN M
    ELSE LET copy == CopyEntries(M.heap, M.requests)
         IN [M EXCEPT !.heap = copy.heap,
                      !.log = Append(M.log, Snapshot(M.heap, M.requests, copy.entries, status))]

\* MarkFailed rethrowing the last error instead of recording the failure.
MarkFailedThrows(M, w) ==
    [M EXCEPT !.workers[w].threw = TRUE, !.workers[w].pc = "settled"]

\* Lines 259-262: the loop was left without success.
MarkFailed(M, w) ==
    LET a == M.workers[w].item
        err == IF M.heap[a].error # Undefined THEN M.heap[a].error
               ELSE IF M.workers[w].lastError # Undefined THEN M.workers[w].lastError
               ELSE "Unknown download error"
    IN [M EXCEPT !.heap[a].status = "failed",
                 !.heap[a].error = err,
                 !.workers[w].pc = "settled"]

\* AttemptLoop putting the request back to 'pending' before each new attempt.
AttemptLoopResetsStatus(M, w, o) ==
    LET a == M.workers[w].item
    IN IF M.workers[w].attempt <= o.maxRetries
       THEN [M EXCEPT !.heap[a].attempts = @ + 1,
                      !.heap[a].status = IF M.workers[w].attempt > 0 THEN "pending" ELSE @,
                      !.transfers[a] = @ + 1,
                      !.workers[w].pc = "transfer"]
       ELSE [M EXCEPT !.heap[a].status = "failed", !.workers[w].pc = "settled"]

\* Head of the while loop of downloadWithRetry up to the await of downloadFile.
AttemptLoop(M, w, o) ==
    LET a == M.workers[w].item
    IN IF M.workers[w].attempt <= o.maxRetries
       THEN [M EXCEPT !.heap[a].attempts = @ + 1,
                      !.transfers[a] = @ + 1,
                      !.workers[w].pc = "transfer"]
       ELSE MarkFailed(M, w)

\* downloadWithRetry(request, options) up to its first await.
downloadWithRetry(M, w, o) ==
    AttemptLoop([M EXCEPT !.workers[w].attempt = 0,
                          !.workers[w].lastError = Undefined], w, o)

\* A processNext frame returns: the chain is over when it was the outermost.
ReturnFrame(M, w) ==
    LET d == M.workers[w].depth
    IN IF d <= 1
       THEN [M EXCEPT !.workers[w].depth = 0,
                      !.workers[w].pc = IF M.workers[w].threw THEN "rejected" ELSE "done"]
       ELSE [M EXCEPT !.workers[w].depth = d - 1,
                      !.workers[w].pc = "unwind"]

\* Shift reading the head without removing it (queue[0] for queue.shift()).
ShiftPeek(q) == [item |-> Head(q), rest |-> q]

\* Shift taking the last element (queue.pop() for queue.shift()).
ShiftLast(q) == [item |-> q[Len(q)], rest |-> SubSeq(q, 1, Len(q) - 1)]

\* queue.shift()
Shift(q) == [item |-> Head(q), rest |-> Tail(q)]

\* processNext delivering its first snapshot after the retry engine has started.
processNextReportsLate(M, w, o) ==
    IF M.queue = <<>> THEN ReturnFrame(M, w)
    ELSE LET sh == Shift(M.queue)
             M1 == [M EXCEPT !.queue = sh.rest,
                             !.active = @ + 1,
                             !.heap[sh.item].status = "downloading",
                             !.dispatched[sh.item] = @ + 1,
                             !.workers[w].item = sh.item,
                             !.workers[w].depth = @ + 1]
         IN updateProgress(downloadWithRetry(M1, w, o), "running", o)

\* processNext() up to its first await.
processNext(M, w, o) ==
    IF M.queue = <<>> THEN ReturnFrame(M, w)
    ELSE LET sh == Shift(M.queue)
             M1 == [M EXCEPT !.queue = sh.rest,
                             !.active = @ + 1,
                             !.heap[sh.item].status = "downloading",
                             !.dispatched[sh.item] = @ + 1,
                             !.workers[w].item = sh.item,
                             !.workers[w].depth = @ + 1]
         IN downloadWithRetry(updateProgress(M1, "running", o), w, o)

\* WorkerCount with one chain too many.
WorkerCountOffByOne(o) == o.concurrency + 1

\* The length of Array.from({ length: concurrency }, ...): one chain per unit.
WorkerCount(o) == o.concurrency

\* LaunchWorkers starting the first chain only.
RECURSIVE LaunchWorkersSingle(_, _, _)
LaunchWorkersSingle(M, w, o) ==
    IF w > 1 THEN M
    ELSE LaunchWorkersSingle(processNext(M, w, o), w + 1, o)

\* Array.from({ length: concurrency }, () => processNext())
RECURSIVE LaunchWorkers(_, _, _)
LaunchWorkers(M, w, o) ==
    IF w > WorkerCount(o) THEN M
    ELSE LaunchWorkers(processNext(M, w, o), w + 1, o)

NewWorker ==
    [pc |-> "idle", item |-> 0, attempt |-> 0, depth |-> 0, threw |-> FALSE,
     lastError |-> Undefined, ms |-> 0]

\* DownloadApp after init(): the state object of lines 292-298 and the buttons
\* as renderLayout leaves them (retryFailed carries `disabled`).
\*   message          state.message: which text, and the counts it quotes
\*   directoryHandle  whether state.directoryHandle is set
\*   pickers          the pickDirectory calls awaiting showDirectoryPicker()
\*   awaiting, urls   whether the latest startTask call awaits runDownloadTask,
\*                    and its parameter
\*   background       the earlier startTask calls still awaiting theirs: per
\*                    call, the URL of each request and its status, "open"
\*                    standing for a request not terminal yet
\*   batches, via, reinit   history: how many batches were started, by which
\*                    button the latest one, and whether init() was called again
NewApp ==
    [isRunning |-> FALSE, failedUrls |-> <<>>, message |-> <<>>,
     directoryHandle |-> FALSE, pickers |-> 0,
     startDisabled |-> FALSE, retryDisabled |-> TRUE,
     awaiting |-> FALSE, urls |-> <<>>, background |-> <<>>,
     batches |-> 0, via |-> "none", reinit |-> FALSE]

Init ==
    /\ phase = "init"
    /\ opts = NoOptions
    /\ heap = <<>>
    /\ requests = <<>>
    /\ queue = <<>>
    /\ active = 0
    /\ workers = <<>>
    /\ log = <<>>
    /\ result = NoResult
    /\ dispatched = <<>>
    /\ transfers = <<>>
    /\ waits = <<>>
    /\ tampered = 0
    /\ app = NewApp

\* Lines 182-221: the entries, the 'idle' snapshot, the queue and the workers.
StartBatch(urls, o) ==
    LET n == Len(urls)
        M0 == [heap |-> [i \in 1..n |->
                            [id |-> createTaskId(i - 1),
                             url |-> urls[i],
                             filename |-> inferFilename(urls[i], i - 1),
                             status |-> "pending",
                             attempts |-> 0,
                             error |-> Undefined]],
               requests |-> [i \in 1..n |-> i],
               queue |-> <<>>,
               active |-> 0,
               workers |-> [w \in 1..WorkerCount(o) |-> NewWorker],
               log |-> <<>>,
               dispatched |-> [i \in 1..n |-> 0],
               transfers |-> [i \in 1..n |-> 0],
               waits |-> [i \in 1..n |-> <<>>]]
        M1 == updateProgress(M0, "idle", o)
        M2 == [M1 EXCEPT !.queue = M1.requests]
    IN LaunchWorkers(M2, 1, o)

\* The state a call of runDownloadTask starts from: nothing of a batch exists.
NoBatch ==
    [heap |-> <<>>, requests |-> <<>>, queue |-> <<>>, active |-> 0,
     workers |-> <<>>, log |-> <<>>, dispatched |-> <<>>, transfers |-> <<>>,
     waits |-> <<>>]

\* CallRunDownloadTask without the early return of lines 178-180.
CallRunDownloadTaskNoEarlyReturn(urls, o) ==
    /\ opts' = o
    /\ Commit(StartBatch(urls, o))
    /\ phase' = "running"
    /\ result' = NoResult

\* A call of runDownloadTask(urls, options), up to `await Promise.all(workers)`.
CallRunDownloadTask(urls, o) ==
    /\ opts' = o
    /\ IF urls = <<>>
       THEN /\ phase' = "returned"
            /\ result' = [successes |-> <<>>, failures |-> <<>>, none |-> FALSE]
            /\ Commit(NoBatch)
       ELSE /\ Commit(StartBatch(urls, o))
            /\ phase' = "running"
            /\ result' = NoResult

\* runDownloadTask called directly, once.
RunDownloadTask(urls, o) ==
    /\ phase = "init"
    /\ CallRunDownloadTask(urls, o)
    /\ UNCHANGED <<tampered, app>>

\* TransferSucceeds leaving the error of an earlier attempt in place.
TransferSucceedsKeepsError(w) ==
    /\ w \in DOMAIN workers
    /\ workers[w].pc = "transfer"
    /\ LET a == workers[w].item
       IN Commit([Machine EXCEPT !.heap[a].status = "success",
                                 !.workers[w].pc = "settled"])
    /\ UNCHANGED <<phase, opts, result, tampered, app>>

\* downloadFile resolved: lines 244-246.
TransferSucceeds(w) ==
    /\ w \in DOMAIN workers
    /\ workers[w].pc = "transfer"
    /\ LET a == workers[w].item
       IN Commit([Machine EXCEPT !.heap[a].status = "success",
                                 !.heap[a].error = Undefined,
                                 !.workers[w].pc = "settled"])
    /\ UNCHANGED <<phase, opts, result, tampered, app>>

\* CatchFailure giving up one attempt early (attempt >= maxRetries).
CatchFailureOffByOne(M, w, message, o) ==
    LET a == M.workers[w].item
        attempt == M.workers[w].attempt + 1
        M1 == [M EXCEPT !.heap[a].error = message,
                        !.workers[w].lastError = message,
                        !.workers[w].attempt = attempt]
        backoff == o.retryDelayMs * 2 ^ (attempt - 1)
    IN IF attempt >= o.maxRetries
       THEN [M1 EXCEPT !.heap[a].status = "failed", !.workers[w].pc = "settled"]
       ELSE [M1 EXCEPT !.workers[w].pc = "sleep",
                       !.workers[w].ms = backoff,
                       !.waits[a] = Append(@, backoff)]

\* CatchFailure marking the request 'failed' after every failed attempt.
CatchFailureMarksFailed(M, w, message, o) ==
    LET a == M.workers[w].item
        attempt == M.workers[w].attempt + 1
        M1 == [M EXCEPT !.heap[a].error = message,
                        !.heap[a].status = "failed",
                        !.workers[w].lastError = message,
                        !.workers[w].attempt = attempt]
        backoff == o.retryDelayMs * 2 ^ (attempt - 1)
    IN IF attempt > o.maxRetries
       THEN [M1 EXCEPT !.workers[w].pc = "settled"]
       ELSE [M1 EXCEPT !.workers[w].pc = "sleep",
                       !.workers[w].ms = backoff,
                       !.waits[a] = Append(@, backoff)]

\* CatchFailure doubling one attempt early (2 ** attempt for 2 ** (attempt - 1)).
CatchFailureDoublesEarly(M, w, message, o) ==
    LET a == M.workers[w].item
        attempt == M.workers[w].attempt + 1
        M1 == [M EXCEPT !.heap[a].error = message,
                        !.workers[w].lastError = message,
                        !.workers[w].attempt = attempt]
        backoff == o.retryDelayMs * 2 ^ attempt
    IN IF attempt > o.maxRetries
       THEN MarkFailed(M1, w)
       ELSE [M1 EXCEPT !.workers[w].pc = "sleep",
                       !.workers[w].ms = backoff,
                       !.waits[a] = Append(@, backoff)]

\* The catch block of downloadWithRetry, lines 247-256, up to the await of sleep.
CatchFailure(M, w, message, o) ==
    LET a == M.workers[w].item
        attempt == M.workers[w].attempt + 1
        M1 == [M EXCEPT !.heap[a].error = message,
                        !.workers[w].lastError = message,
                        !.workers[w].attempt = attempt]
        backoff == o.retryDelayMs * 2 ^ (attempt - 1)
    IN IF attempt > o.maxRetries
       THEN MarkFailed(M1, w)
       ELSE [M1 EXCEPT !.workers[w].pc = "sleep",
                       !.workers[w].ms = backoff,
                       !.waits[a] = Append(@, backoff)]

\* downloadFile rejected with `message`.
TransferFails(w, message) ==
    /\ w \in DOMAIN workers
    /\ workers[w].pc = "transfer"
    /\ Commit(CatchFailure(Machine, w, message, opts))
    /\ UNCHANGED <<phase, opts, result, tampered, app>>

\* sleep(backoff) resolved: the loop goes round.
BackoffExpires(w) ==
    /\ w \in DOMAIN workers
    /\ workers[w].pc = "sleep"
    /\ Commit(AttemptLoop([Machine EXCEPT !.workers[w].ms = 0], w, opts))
    /\ UNCHANGED <<phase, opts, result, tampered, app>>

\* Finally without the continuation: the chain ends after one request.
FinallyNoContinue(M, w, o) ==
    [M EXCEPT !.active = @ - 1,
              !.workers[w].depth = 0,
              !.workers[w].pc = "done"]

\* The finally block of processNext, lines 213-218.
Finally(M, w, o) ==
    LET M1 == [M EXCEPT !.active = @ - 1]
    IN IF M1.queue # <<>> THEN processNext(M1, w, o) ELSE ReturnFrame(M1, w)

\* AfterRetry without the updateProgress call of line 212.
AfterRetrySilent(M, w, o) == Finally(M, w, o)

\* Continuation of processNext after `await downloadWithRetry(...)`, lines 212-218.
AfterRetry(M, w, o) ==
    IF M.workers[w].threw
    THEN Finally(M, w, o)
    ELSE Finally(updateProgress(M, "running", o), w, o)

WorkerResumes(w) ==
    /\ w \in DOMAIN workers
    /\ workers[w].pc = "settled"
    /\ Commit(AfterRetry(Machine, w, opts))
    /\ UNCHANGED <<phase, opts, result, tampered, app>>

\* Continuation of an outer processNext frame after `await processNext()`.
FrameReturns(w) ==
    /\ w \in DOMAIN workers
    /\ workers[w].pc = "unwind"
    /\ Commit(ReturnFrame(Machine, w))
    /\ UNCHANGED <<phase, opts, result, tampered, app>>

\* AllSettled as Promise.race would settle: with the first chain that ends.
AllSettledRace(ws) == \E w \in DOMAIN ws : ws[w].pc \in {"done", "rejected"}

\* Promise.all(workers): settled as soon as one rejects, or when all are fulfilled.
AllSettled(ws) ==
    \/ \E w \in DOMAIN ws : ws[w].pc = "rejected"
    \/ \A w \in DOMAIN ws : ws[w].pc = "done"

\* BuildResult reporting every request that is not 'failed' as a success and
\* every request with a recorded error as a failure.
BuildResultByError(h, addrs) ==
    [successes |-> SelectSeq(addrs, LAMBDA a : h[a].status # "failed"),
     failures |-> SelectSeq(addrs, LAMBDA a : h[a].attempts > 1),
     none |-> FALSE]

\* The returned object, lines 226-229: the live entries filtered by status.
BuildResult(h, addrs) ==
    [successes |-> FilterStatus(h, addrs, "success"),
     failures |-> FilterStatus(h, addrs, "failed"),
     none |-> FALSE]

\* Continuation of runDownloadTask after `await Promise.all(workers)`, lines 222-229.
Join ==
    /\ phase = "running"
    /\ AllSettled(workers)
    /\ IF \E w \in DOMAIN workers : workers[w].pc = "rejected"
       THEN /\ phase' = "threw"
            /\ UNCHANGED <<heap, requests, queue, active, workers, log, result,
                           dispatched, transfers, waits>>
       ELSE LET M == updateProgress(Machine, "completed", opts)
            IN /\ Commit(M)
               /\ phase' = "returned"
               /\ result' = BuildResult(M.heap, M.requests)
    /\ UNCHANGED <<opts, tampered, app>>

OptionSets ==
    [concurrency : 1..MaxConcurrency,
     maxRetries : 0..MaxRetriesBound,
     retryDelayMs : RetryDelays,
     onProgress : BOOLEAN]

\* The steps the event loop takes once runDownloadTask was called.
Progress ==
    \/ \E w \in 1..MaxConcurrency : TransferSucceeds(w)
    \/ \E w \in 1..MaxConcurrency, m \in FailureMessages : TransferFails(w, m)
    \/ \E w \in 1..MaxConcurrency : BackoffExpires(w)
    \/ \E w \in 1..MaxConcurrency : WorkerResumes(w)
    \/ \E w \in 1..MaxConcurrency : FrameReturns(w)
    \/ Join

Next ==
    \/ \E urls \in UrlLists, o \in OptionSets : RunDownloadTask(urls, o)
    \/ \E w \in 1..MaxConcurrency : TransferSucceeds(w)
    \/ \E w \in 1..MaxConcurrency, m \in FailureMessages : TransferFails(w, m)
    \/ \E w \in 1..MaxConcurrency : BackoffExpires(w)
    \/ \E w \in 1..MaxConcurrency : WorkerResumes(w)
    \/ \E w \in 1..MaxConcurrency : FrameReturns(w)
    \/ Join

Spec == Init /\ [][Next]_vars

\* The calls without an observer (onProgress absent): updateProgress returns at
\* once, so the state is the orchestrator's alone.
NextUnobserved ==
    \/ \E urls \in UrlLists, o \in {x \in OptionSets : ~x.onProgress} :
            RunDownloadTask(urls, o)
    \/ \E w \in 1..MaxConcurrency : TransferSucceeds(w)
    \/ \E w \in 1..MaxConcurrency, m \in FailureMessages : TransferFails(w, m)
    \/ \E w \in 1..MaxConcurrency : BackoffExpires(w)
    \/ \E w \in 1..MaxConcurrency : WorkerResumes(w)
    \/ \E w \in 1..MaxConcurrency : FrameReturns(w)
    \/ Join

\* Every transfer and every backoff delay eventually finishes, and the event loop
\* runs every continuation that is ready. The liveness properties are checked on
\* the calls without an observer: the orchestrator never reads what it delivers.
FairSpec == Init /\ [][NextUnobserved]_vars /\ WF_vars(Progress)

(***************************************************************************)
(* The observer. onProgress receives the snapshot object and may keep and  *)
(* change it: a write to a field of an element of snapshot.entries, or to  *)
(* the entries array.                                                      *)
(***************************************************************************)
MaxTampering == 1

FieldValues(field) ==
    CASE field = "status" -> {"pending", "downloading", "success", "failed"}
      [] field = "attempts" -> {0, 9}
      [] field = "error" -> {Undefined, "observer"}
      [] field = "url" -> {"https://observer/"}
      [] field = "filename" -> {"observer.bin"}
      [] field = "id" -> {0}

Fields == {"status", "attempts", "error", "url", "filename", "id"}

\* snapshot.entries[i][field] = value, on the s-th snapshot delivered.
ObserverWritesField(s, i, field, value) ==
    /\ tampered < MaxTampering
    /\ s \in 1..Len(log)
    /\ i \in 1..Len(log[s].entries)
    /\ heap[log[s].entries[i]][field] # value
    /\ heap' = [heap EXCEPT ![log[s].entries[i]][field] = value]
    /\ tampered' = tampered + 1
    /\ UNCHANGED <<phase, opts, requests, queue, active, workers, log, result,
                   dispatched, transfers, waits, app>>

\* snapshot.entries.pop(), on the s-th snapshot delivered.
ObserverPopsEntry(s) ==
    /\ tampered < MaxTampering
    /\ s \in 1..Len(log)
    /\ log[s].entries # <<>>
    /\ log' = [log EXCEPT ![s].entries = SubSeq(@, 1, Len(@) - 1)]
    /\ tampered' = tampered + 1
    /\ UNCHANGED <<phase, opts, heap, requests, queue, active, workers, result,
                   dispatched, transfers, waits, app>>

\* A batch of N requests delivers 2N + 2 snapshots.
MaxSnapshots == 2 * MaxUrls + 2

NextObserved ==
    \/ \E urls \in UrlLists, o \in OptionSets : RunDownloadTask(urls, o)
    \/ \E w \in 1..MaxConcurrency : TransferSucceeds(w)
    \/ \E w \in 1..MaxConcurrency, m \in FailureMessages : TransferFails(w, m)
    \/ \E w \in 1..MaxConcurrency : BackoffExpires(w)
    \/ \E w \in 1..MaxConcurrency : WorkerResumes(w)
    \/ \E w \in 1..MaxConcurrency : FrameReturns(w)
    \/ Join
    \/ \E s \in 1..MaxSnapshots, i \in 1..MaxUrls, f \in Fields : \E v \in FieldValues(f) :
            ObserverWritesField(s, i, f, v)
    \/ \E s \in 1..MaxSnapshots : ObserverPopsEntry(s)

SpecObserved == Init /\ [][NextObserved]_vars

(***************************************************************************)
(* Properties.                                                             *)
(***************************************************************************)
Range(q) == {q[i] : i \in 1..Len(q)}

\* How many of the objects at `addrs` have `status`.
CountStatus(addrs, status) ==
    Cardinality({i \in 1..Len(addrs) : heap[addrs[i]].status = status})

\* The i-th entry of the s-th delivered snapshot.
SnapEntry(s, i) == heap[log[s].entries[i]]

AllTerminal == \A i \in 1..N : Terminal(Req(i).status)

\* C1: at most `concurrency` entries are 'downloading', in every state and in
\* every snapshot delivered to onProgress.
C1_DownloadingAtMostConcurrency ==
    /\ CountStatus(requests, "downloading") <= opts.concurrency
    /\ \A s \in 1..Len(log) :
           CountStatus(log[s].entries, "downloading") <= opts.concurrency

\* C1 witness: one worker, two requests: the second is downloading after the
\* first finished, and a snapshot shows it.
C1_Witness ==
    /\ opts.concurrency = 1
    /\ N = 2
    /\ Terminal(Req(1).status)
    /\ Req(2).status = "downloading"
    /\ \E s \in 1..Len(log) :
           /\ CountStatus(log[s].entries, "downloading") = 1
           /\ SnapEntry(s, 2).status = "downloading"

\* C2: no request is shifted off the queue twice, no two chains hold the same
\* request, a surplus worker ends at once without an item, and once the batch
\* runs every request is eventually shifted off exactly once.
C2_DispatchedExactlyOnce ==
    /\ [](\A i \in 1..N :
            /\ dispatched[requests[i]] <= 1
            /\ (dispatched[requests[i]] = 1) <=> (Req(i).status # "pending"))
    /\ [](\A v, w \in DOMAIN workers :
            (v # w /\ workers[v].item # 0 /\ workers[w].item # 0)
                => workers[v].item # workers[w].item)
    /\ [](\A w \in DOMAIN workers :
            w > N => (workers[w].pc = "done" /\ workers[w].item = 0))
    /\ [](phase = "running" => <>(\A i \in 1..N : dispatched[requests[i]] = 1))

\* C2 witness: two workers for one request: the second found the queue empty,
\* the request was dispatched once and the batch returned.
C2_Witness ==
    /\ phase = "returned"
    /\ N = 1
    /\ opts.concurrency = 2
    /\ workers[2].pc = "done" /\ workers[2].item = 0
    /\ dispatched[requests[1]] = 1

\* Position of an address in the input-ordered entries.
Position(a) == CHOOSE i \in 1..N : requests[i] = a
InInputOrder(q) == \A i, j \in 1..Len(q) : i < j => Position(q[i]) < Position(q[j])

\* C3: the returned result is an order-preserving partition of the entries by
\* their status.
C3_ResultIsOrderedPartition ==
    phase = "returned" =>
        /\ result.successes = SelectSeq(requests, LAMBDA a : heap[a].status = "success")
        /\ result.failures = SelectSeq(requests, LAMBDA a : heap[a].status = "failed")
        /\ Len(result.successes) + Len(result.failures) = N
        /\ \A i \in 1..N :
               (requests[i] \in Range(result.successes))
                   # (requests[i] \in Range(result.failures))
        /\ InInputOrder(result.successes)
        /\ InInputOrder(result.failures)

\* C3 witness: the second request finished first (a snapshot shows it terminal
\* while the first is downloading), and both are successes, in input order.
C3_Witness ==
    /\ phase = "returned"
    /\ N = 2
    /\ result.successes = requests
    /\ \E s \in 1..Len(log) :
           /\ SnapEntry(s, 1).status = "downloading"
           /\ SnapEntry(s, 2).status = "success"

\* C4: attempts counts the downloadFile calls made, never exceeds maxRetries + 1,
\* is maxRetries + 1 for a failed request and 1..maxRetries + 1 for a success.
C4_AttemptsCount ==
    \A i \in 1..N :
        /\ Req(i).attempts = transfers[requests[i]]
        /\ Req(i).attempts <= opts.maxRetries + 1
        /\ Req(i).status = "failed" => Req(i).attempts = opts.maxRetries + 1
        /\ Req(i).status = "success" => Req(i).attempts \in 1..(opts.maxRetries + 1)
        /\ Req(i).status = "pending" => Req(i).attempts = 0

\* C4 witness: with one retry, one request succeeded on its second attempt and
\* another failed after two.
C4_Witness ==
    /\ opts.maxRetries = 1
    /\ \E i, j \in 1..N :
           /\ Req(i).status = "success" /\ Req(i).attempts = 2
           /\ Req(j).status = "failed" /\ Req(j).attempts = 2

\* The live entries and a delivered snapshot's entries, by value.
Live == [i \in 1..N |-> Req(i)]
SnapContent(s) == [i \in 1..Len(log[s].entries) |-> SnapEntry(s, i)]

\* C5: a failure of one request never makes runDownloadTask throw or a chain
\* reject; the step that records it changes only that request's status and
\* error; and the batch still returns with every request terminal.
C5_FailuresStayLocal ==
    /\ [](phase # "threw")
    /\ [](\A w \in DOMAIN workers : workers[w].pc # "rejected" /\ ~workers[w].threw)
    /\ [][\A i \in 1..N :
            (N' = N /\ Req(i)'.error # Req(i).error /\ Req(i)'.error # Undefined) =>
                /\ \A j \in (1..N) \ {i} : Req(j)' = Req(j)
                /\ Req(i)' = [Req(i) EXCEPT !.status = Req(i)'.status,
                                             !.error = Req(i)'.error]
                /\ Req(i)'.status \in {"downloading", "failed"}
                /\ UNCHANGED <<queue, phase, result, log>>]_vars
    /\ [](phase = "running" => <>(phase = "returned" /\ AllTerminal))

\* C5 witness: the batch returned with the first request failed (its message
\* recorded) and the second, dispatched after that failure, a success.
C5_Witness ==
    /\ phase = "returned"
    /\ N = 2
    /\ opts.concurrency = 1
    /\ Req(1).status = "failed" /\ Req(1).error \in FailureMessages
    /\ Req(2).status = "success" /\ Req(2).error = Undefined
    /\ result.failures = <<requests[1]>>

\* C6: under fairness a running batch returns with every worker finished, the
\* queue empty and no entry pending or downloading; every downloading request
\* becomes terminal; no request is transferred more than maxRetries + 1 times.
C6_BatchTerminates ==
    /\ [](\A i \in 1..N : transfers[requests[i]] <= opts.maxRetries + 1)
    /\ \A i \in 1..MaxUrls :
           []((i <= N /\ Req(i).status = "downloading")
                 => <>(i <= N /\ Terminal(Req(i).status)))
    /\ [](phase = "running" =>
             <>(/\ phase = "returned"
                /\ \A w \in DOMAIN workers : workers[w].pc = "done"
                /\ queue = <<>>
                /\ active = 0
                /\ \A i \in 1..N : Req(i).status \notin {"pending", "downloading"}))

\* C6 witness: one worker drove two requests to the end, one of them through a
\* retry, and the batch returned.
C6_Witness ==
    /\ phase = "returned"
    /\ N = 2
    /\ opts.concurrency = 1
    /\ opts.maxRetries = 1
    /\ \E i \in 1..N : Req(i).attempts = 2
    /\ \A w \in DOMAIN workers : workers[w].pc = "done"

StatusRank(status) ==
    CASE status = "pending" -> 0
      [] status = "downloading" -> 1
      [] OTHER -> 2

\* C7: a request's status only moves pending -> downloading -> success | failed;
\* it is 'downloading' for as long as its retry loop is awaiting a transfer or a
\* backoff; a terminal request never changes again; and the delivered snapshots
\* show the same order.
C7_StatusMonotonic ==
    /\ [][\A i \in 1..N : N' = N =>
            /\ \/ Req(i)'.status = Req(i).status
               \/ Req(i).status = "pending" /\ Req(i)'.status = "downloading"
               \/ Req(i).status = "downloading" /\ Terminal(Req(i)'.status)
            /\ Terminal(Req(i).status) => Req(i)' = Req(i)]_vars
    /\ [](\A w \in DOMAIN workers :
            workers[w].pc \in {"transfer", "sleep"}
                => heap[workers[w].item].status = "downloading")
    /\ [](\A s, t \in 1..Len(log) : \A i \in 1..N :
            s < t =>
                /\ StatusRank(SnapEntry(s, i).status) <= StatusRank(SnapEntry(t, i).status)
                /\ Terminal(SnapEntry(s, i).status) => SnapEntry(t, i) = SnapEntry(s, i))

\* C7 witness: a request awaiting its backoff after a failed attempt is still
\* 'downloading', and a snapshot delivered since that failure shows it so.
C7_Witness ==
    \E w \in DOMAIN workers :
        /\ workers[w].pc = "sleep"
        /\ heap[workers[w].item].status = "downloading"
        /\ heap[workers[w].item].error \in FailureMessages
        /\ \E s \in 1..Len(log) : \E i \in 1..N :
               /\ requests[i] = workers[w].item
               /\ SnapEntry(s, i).status = "downloading"
               /\ SnapEntry(s, i).error \in FailureMessages

\* C8: every delivered snapshot has total = N, N entries in input order, the
\* counts of its own success and failed entries, completed = successes +
\* failures and completed <= total.
C8_SnapshotConsistent ==
    \A s \in 1..Len(log) :
        /\ log[s].total = N
        /\ Len(log[s].entries) = N
        /\ \A i \in 1..N :
               /\ SnapEntry(s, i).id = Req(i).id
               /\ SnapEntry(s, i).url = Req(i).url
               /\ SnapEntry(s, i).filename = Req(i).filename
        /\ log[s].successes = CountStatus(log[s].entries, "success")
        /\ log[s].failures = CountStatus(log[s].entries, "failed")
        /\ log[s].completed = log[s].successes + log[s].failures
        /\ log[s].completed <= log[s].total

\* C8 witness: a snapshot of two entries with one success and one failure, and
\* an earlier one with a request finished and the other not.
C8_Witness ==
    /\ N = 2
    /\ \E s, t \in 1..Len(log) :
           /\ s < t
           /\ log[s].completed = 1 /\ log[s].failures = 1
           /\ log[t].successes = 1 /\ log[t].failures = 1 /\ log[t].completed = 2

\* C9: along the delivered snapshots completed, successes and failures never
\* decrease.
C9_CompletedMonotonic ==
    \A s, t \in 1..Len(log) :
        s < t =>
            /\ log[s].completed <= log[t].completed
            /\ log[s].successes <= log[t].successes
            /\ log[s].failures <= log[t].failures

\* C9 witness: the second request finished before the first, and completed
\* went 0, 1, 2 along the snapshots.
C9_Witness ==
    /\ N = 2
    /\ \E s, t, u \in 1..Len(log) :
           /\ s < t /\ t < u
           /\ log[s].completed = 0
           /\ log[t].completed = 1 /\ Terminal(SnapEntry(t, 2).status)
           /\ log[u].completed = 2

\* C10: a write of the observer to a delivered snapshot changes neither the
\* live entries nor anything else the orchestrator reads, and a step of the
\* orchestrator changes no snapshot already delivered.
C10_SnapshotIsolation ==
    [][/\ tampered' # tampered =>
            /\ Live' = Live
            /\ UNCHANGED <<phase, opts, requests, queue, active, workers, result>>
            /\ [i \in 1..Len(queue') |-> heap'[queue'[i]]]
                   = [i \in 1..Len(queue) |-> heap[queue[i]]]
            /\ [i \in 1..Len(result.successes) |-> heap'[result.successes[i]]]
                   = [i \in 1..Len(result.successes) |-> heap[result.successes[i]]]
            /\ [i \in 1..Len(result.failures) |-> heap'[result.failures[i]]]
                   = [i \in 1..Len(result.failures) |-> heap[result.failures[i]]]
       /\ tampered' = tampered =>
            \A s \in 1..Len(log) :
                /\ log'[s] = log[s]
                /\ SnapContent(s)' = SnapContent(s)]_vars

\* C10 witness: the observer overwrote the status of an entry it received in
\* the first snapshot, and the batch went on to return with that request failed
\* and a later snapshot showing it.
C10_Witness ==
    /\ tampered = 1
    /\ phase = "returned"
    /\ Len(log) > 1
    /\ Len(log[1].entries) = N
    /\ Len(log[Len(log)].entries) = N
    /\ SnapEntry(1, 1).status = "success"
    /\ Req(1).status = "failed"
    /\ SnapEntry(Len(log), 1).status = "failed"

\* The positions in the log of the snapshots with `status`.
SnapshotsWith(status) == {s \in 1..Len(log) : log[s].status = status}

\* The request at address a is terminal and its chain is past line 212.
Reported(a) ==
    /\ Terminal(heap[a].status)
    /\ \A w \in DOMAIN workers : ~(workers[w].pc = "settled" /\ workers[w].item = a)

\* C11: with an observer and a non-empty batch, the first snapshot is the only
\* 'idle' one and shows every entry pending with attempts 0; every request that
\* is terminal and whose chain resumed is shown terminal by a 'running'
\* snapshot; a 'completed' snapshot is the last one, is delivered only once
\* every chain has finished, and is there once the call has returned.
C11_SnapshotStream ==
    (opts.onProgress /\ N > 0) =>
        /\ Len(log) >= 1
        /\ SnapshotsWith("idle") = {1}
        /\ \A i \in 1..N : SnapEntry(1, i).status = "pending" /\ SnapEntry(1, i).attempts = 0
        /\ \A i \in 1..N :
               Reported(requests[i]) =>
                   \E s \in SnapshotsWith("running") : Terminal(SnapEntry(s, i).status)
        /\ SnapshotsWith("completed") \subseteq {Len(log)}
        /\ SnapshotsWith("completed") # {} =>
               /\ phase = "returned"
               /\ \A w \in DOMAIN workers : workers[w].pc = "done"
        /\ phase = "returned" => SnapshotsWith("completed") = {Len(log)}

\* C11 witness: a returned batch of two requests whose log starts with 'idle',
\* ends with 'completed' and has 'running' snapshots in between.
C11_Witness ==
    /\ phase = "returned"
    /\ N = 2
    /\ Len(log) > 2
    /\ log[1].status = "idle"
    /\ log[Len(log)].status = "completed"
    /\ \A s \in 2..(Len(log) - 1) : log[s].status = "running"

\* C12: a call with an empty URL list returns the empty result at once: no
\* entry, no worker, no transfer and no snapshot exists, whatever the options.
C12_EmptyListReturnsAtOnce ==
    (phase # "init" /\ N = 0) =>
        /\ phase = "returned"
        /\ result = [successes |-> <<>>, failures |-> <<>>, none |-> FALSE]
        /\ workers = <<>>
        /\ log = <<>>
        /\ heap = <<>>
        /\ queue = <<>>
        /\ active = 0
        /\ transfers = <<>>

\* C12 witness: the call returned for an empty list although an observer and
\* two workers were asked for.
C12_Witness ==
    /\ phase = "returned"
    /\ N = 0
    /\ opts.onProgress
    /\ opts.concurrency = 2
    /\ log = <<>>
    /\ result.none = FALSE

\* The entries of the returned result, successes and failures together.
ResultEntries == Range(result.successes) \cup Range(result.failures)

\* C13: once the call has returned for a non-empty list with an observer, the
\* last snapshot is the 'completed' one and agrees with the result: completed
\* equals total, no entry is 'pending' or 'downloading', its successes and
\* failures are the lengths of the result's lists, and each of its entries has
\* the id, status, attempts and error of the result entry with that id, which
\* sits in the list its status names.
C13_ResultAgreesWithCompleted ==
    (phase = "returned" /\ opts.onProgress /\ N > 0) =>
        LET last == Len(log)
            snap == log[last]
        IN /\ snap.status = "completed"
           /\ snap.total = N
           /\ snap.completed = snap.total
           /\ Len(snap.entries) = N
           /\ \A i \in 1..N : SnapEntry(last, i).status \notin {"pending", "downloading"}
           /\ snap.successes = Len(result.successes)
           /\ snap.failures = Len(result.failures)
           /\ Len(result.successes) + Len(result.failures) = N
           /\ \A i \in 1..N :
                  \E a \in ResultEntries :
                      /\ heap[a].id = SnapEntry(last, i).id
                      /\ heap[a].status = SnapEntry(last, i).status
                      /\ heap[a].attempts = SnapEntry(last, i).attempts
                      /\ heap[a].error = SnapEntry(last, i).error
                      /\ a \in Range(result.successes) <=> heap[a].status = "success"
                      /\ a \in Range(result.failures) <=> heap[a].status = "failed"

\* C13 witness: a returned batch of two with one success after a retry and one
\* failure, reported by a 'completed' snapshot.
C13_Witness ==
    /\ phase = "returned"
    /\ opts.onProgress
    /\ N = 2
    /\ log[Len(log)].status = "completed"
    /\ Len(result.successes) = 1
    /\ Len(result.failures) = 1
    /\ heap[result.successes[1]].attempts = 2
    /\ heap[result.failures[1]].error = "HTTP 404"

(***************************************************************************)
(* The backoff schedule needs calls that retry more than once: the calls   *)
(* below have no observer and up to MaxBackoffRetries retries, with two    *)
(* base delays.                                                            *)
(***************************************************************************)
MaxBackoffRetries == 3

BackoffDelays == {100, 500}

BackoffOptionSets ==
    [concurrency : 1..MaxConcurrency,
     maxRetries : 0..MaxBackoffRetries,
     retryDelayMs : BackoffDelays,
     onProgress : {FALSE}]

NextBackoff ==
    \/ \E urls \in UrlLists, o \in BackoffOptionSets : RunDownloadTask(urls, o)
    \/ \E w \in 1..MaxConcurrency : TransferSucceeds(w)
    \/ \E w \in 1..MaxConcurrency, m \in FailureMessages : TransferFails(w, m)
    \/ \E w \in 1..MaxConcurrency : BackoffExpires(w)
    \/ \E w \in 1..MaxConcurrency : WorkerResumes(w)
    \/ \E w \in 1..MaxConcurrency : FrameReturns(w)
    \/ Join

SpecBackoff == Init /\ [][NextBackoff]_vars

\* 1, 2, 4, ...: the factor of the k-th wait, by repeated doubling.
RECURSIVE Doubled(_)
Doubled(k) == IF k <= 1 THEN 1 ELSE 2 * Doubled(k - 1)

\* The worker whose chain currently holds request a, if any.
Holders(a) == {w \in DOMAIN workers : workers[w].item = a /\ workers[w].pc \in {"transfer", "sleep"}}

\* C14: the k-th wait of a request is retryDelayMs doubled k - 1 times, with no
\* jitter and no cap; a wait follows each failed attempt k <= maxRetries and
\* nothing else, so a request in its k-th transfer or finished after k attempts
\* has waited k - 1 times, a sleeping worker sleeps for the wait just recorded,
\* and a request is marked 'failed' after maxRetries waits and maxRetries + 1
\* attempts, without a wait after the last one.
C14_BackoffSchedule ==
    \A i \in 1..N :
        LET a == requests[i]
            w == waits[a]
        IN /\ \A k \in 1..Len(w) : w[k] = opts.retryDelayMs * Doubled(k)
           /\ Len(w) <= opts.maxRetries
           /\ \A h \in Holders(a) :
                  IF workers[h].pc = "sleep"
                  THEN /\ Len(w) = heap[a].attempts
                       /\ heap[a].attempts <= opts.maxRetries
                       /\ workers[h].ms = w[Len(w)]
                       /\ heap[a].status = "downloading"
                  ELSE Len(w) = heap[a].attempts - 1
           /\ heap[a].status = "success" => Len(w) = heap[a].attempts - 1
           /\ heap[a].status = "failed" =>
                  /\ heap[a].attempts = opts.maxRetries + 1
                  /\ Len(w) = opts.maxRetries
           /\ heap[a].status = "pending" => w = <<>>

\* C14 witness (scenario D): retryDelayMs 100, maxRetries 2, every transfer
\* fails: waits of 100 and 200, then 'failed' with attempts 3.
C14_Witness ==
    /\ N >= 1
    /\ opts.retryDelayMs = 100
    /\ opts.maxRetries = 2
    /\ Req(1).status = "failed"
    /\ Req(1).attempts = 3
    /\ waits[requests[1]] = <<100, 200>>

\* The snapshots that show request i in one of the given statuses.
SnapshotsShowing(i, statuses) ==
    {s \in 1..Len(log) : SnapEntry(s, i).status \in statuses}

\* C15: with an observer, every popped request is first shown by a 'running'
\* snapshot as 'downloading' with attempts 0 (all earlier snapshots show it
\* 'pending'), and once the retry engine has returned and the worker resumed, a
\* later 'running' snapshot shows it terminal; there is one 'running' snapshot
\* per pop and one per return of the retry engine, hence 2N of them between the
\* 'idle' and the 'completed' snapshot of a returned batch.
C15_TwoRunningSnapshotsPerRequest ==
    (opts.onProgress /\ N > 0) =>
        /\ \A i \in 1..N : Req(i).status # "pending" =>
               \E s \in SnapshotsWith("running") :
                   /\ SnapEntry(s, i).status = "downloading"
                   /\ SnapEntry(s, i).attempts = 0
                   /\ \A t \in 1..(s - 1) : SnapEntry(t, i).status = "pending"
        /\ \A i \in 1..N : Reported(requests[i]) =>
               \E s, t \in SnapshotsWith("running") :
                   /\ s < t
                   /\ SnapEntry(s, i).status = "downloading"
                   /\ Terminal(SnapEntry(t, i).status)
        /\ Cardinality(SnapshotsWith("running")) =
               Cardinality({i \in 1..N : Req(i).status # "pending"})
               + Cardinality({i \in 1..N : Reported(requests[i])})
        /\ phase = "returned" =>
               /\ Cardinality(SnapshotsWith("running")) = 2 * N
               /\ Len(log) = 2 * N + 2
               /\ SnapshotsWith("running") = 2..(2 * N + 1)

\* C15 witness: a returned batch of two requests with an observer, reported by
\* four 'running' snapshots, the second request retried once.
C15_Witness ==
    /\ phase = "returned"
    /\ opts.onProgress
    /\ N = 2
    /\ Cardinality(SnapshotsWith("running")) = 4
    /\ Req(2).attempts = 2
    /\ SnapEntry(2, 1).status = "downloading"
    /\ SnapEntry(2, 1).attempts = 0

\* C16: requests are dispatched in input order: a request has left 'pending'
\* only when every request before it in the list has, the queue is the not yet
\* dispatched tail of the list, and the snapshots delivered to an observer show
\* the same (no snapshot shows j dispatched and an earlier i still 'pending').
C16_DispatchInInputOrder ==
    /\ \A i, j \in 1..N : (i < j /\ Req(j).status # "pending") => Req(i).status # "pending"
    /\ (phase \in {"running", "returned"} /\ N > 0) =>
           /\ queue = SubSeq(requests, N - Len(queue) + 1, N)
           /\ \A i \in 1..N : Req(i).status = "pending" <=> requests[i] \in Range(queue)
    /\ \A s \in 1..Len(log) : \A i, j \in 1..N :
           (i < j /\ SnapEntry(s, j).status # "pending") => SnapEntry(s, i).status # "pending"

\* C16 witness: completion out of input order: with two workers the second
\* request is terminal and reported while the first is still 'downloading'.
C16_Witness ==
    /\ phase = "running"
    /\ N = 2
    /\ opts.concurrency = 2
    /\ Req(1).status = "downloading"
    /\ Terminal(Req(2).status)
    /\ Reported(requests[2])

(***************************************************************************)
(* Calls with and without a target directory. With a directory, downloadFile *)
(* awaits saveBlobToDirectory after the transfer, and a rejection of the   *)
(* write rejects downloadFile like a rejection of fetch does.              *)
(***************************************************************************)
WriteFailureMessages == {"Write failed"}

StorageOptionSets ==
    [concurrency : 1..MaxConcurrency,
     maxRetries : 0..MaxRetriesBound,
     retryDelayMs : RetryDelays,
     onProgress : {FALSE},
     directory : BOOLEAN]

\* saveBlobToDirectory rejected with `message` (line 144, caught at line 247).
WriteFails(w, message) ==
    /\ w \in DOMAIN workers
    /\ workers[w].pc = "transfer"
    /\ opts.directory
    /\ Commit(CatchFailure(Machine, w, message, opts))
    /\ UNCHANGED <<phase, opts, result, tampered, app>>

NextStorage ==
    \/ \E urls \in UrlLists, o \in StorageOptionSets : RunDownloadTask(urls, o)
    \/ \E w \in 1..MaxConcurrency : TransferSucceeds(w)
    \/ \E w \in 1..MaxConcurrency, m \in FailureMessages : TransferFails(w, m)
    \/ \E w \in 1..MaxConcurrency, m \in WriteFailureMessages : WriteFails(w, m)
    \/ \E w \in 1..MaxConcurrency : BackoffExpires(w)
    \/ \E w \in 1..MaxConcurrency : WorkerResumes(w)
    \/ \E w \in 1..MaxConcurrency : FrameReturns(w)
    \/ Join

SpecStorage == Init /\ [][NextStorage]_vars

\* The messages downloadFile can reject with.
DownloadFileErrors == FailureMessages \cup WriteFailureMessages

\* The attempt of worker w failed in this step: its wait on downloadFile ended
\* without success.
AttemptFailed(w) ==
    /\ w \in DOMAIN workers
    /\ workers[w].pc = "transfer"
    /\ workers'[w].pc \in {"sleep", "settled"}
    /\ heap'[workers[w].item].status # "success"

\* C17: a failed attempt leaves its message (that of a transfer failure or of a
\* storage-write failure alike) in error, and is retried while attempts remain,
\* whatever the message; a success clears error, also after failed attempts; a
\* 'failed' request carries the message of its last failed attempt, and keeps it.
C17_ErrorField ==
    /\ [][\A w \in DOMAIN workers : AttemptFailed(w) =>
            LET a == workers[w].item
            IN /\ heap'[a].error = workers'[w].lastError
               /\ heap'[a].error \in DownloadFileErrors
               /\ heap'[a].attempts = heap[a].attempts
               /\ IF heap[a].attempts <= opts.maxRetries
                  THEN workers'[w].pc = "sleep" /\ heap'[a].status = "downloading"
                  ELSE workers'[w].pc = "settled" /\ heap'[a].status = "failed"]_vars
    /\ [][\A i \in 1..N : (N' = N /\ Req(i).status = "failed") =>
            Req(i)'.error = Req(i).error]_vars
    /\ [](\A i \in 1..N :
            /\ Req(i).status = "success" => Req(i).error = Undefined
            /\ Req(i).status = "pending" => Req(i).error = Undefined
            /\ Req(i).status = "failed" => Req(i).error \in DownloadFileErrors)
    /\ [](\A w \in DOMAIN workers :
            (workers[w].pc \in {"sleep", "settled"} /\ workers[w].lastError # Undefined
             /\ heap[workers[w].item].status # "success")
                => heap[workers[w].item].error = workers[w].lastError)

\* C17 witness: a batch returned in which the first request failed on a
\* storage-write failure after a transfer failure was retried (scenario B's
\* message on the first attempt), and the second succeeded on its second
\* attempt with error cleared.
C17_Witness ==
    /\ phase = "returned"
    /\ N = 2
    /\ opts.directory
    /\ Req(1).status = "failed"
    /\ Req(1).attempts = 2
    /\ Req(1).error = "Write failed"
    /\ Req(2).status = "success"
    /\ Req(2).attempts = 2
    /\ Req(2).error = Undefined

\* No continuation is ready: every chain waits on a transfer or a backoff delay,
\* or has ended.
Suspended ==
    /\ phase = "running"
    /\ \A w \in DOMAIN workers : workers[w].pc \notin {"settled", "unwind"}

\* C18: work conservation. While the orchestrator is suspended and a request
\* is still 'pending', exactly concurrency requests are 'downloading' (and
\* every chain is waiting on one of them); a chain that resumes while the queue
\* is non-empty holds the head of the queue, already 'downloading' and in its
\* first transfer, at the end of that same step; a chain that ended, or is
\* returning through its frames, implies an empty queue.
C18_WorkConservation ==
    /\ [](( Suspended /\ \E i \in 1..N : Req(i).status = "pending" ) =>
            /\ CountStatus(requests, "downloading") = opts.concurrency
            /\ active = opts.concurrency
            /\ \A w \in DOMAIN workers : workers[w].pc \in {"transfer", "sleep"}
            /\ \A w, v \in DOMAIN workers : w # v => workers[w].item # workers[v].item)
    /\ [](\A w \in DOMAIN workers :
            workers[w].pc \in {"done", "unwind"} => queue = <<>>)
    /\ [][\A w \in DOMAIN workers :
            (workers[w].pc = "settled" /\ workers' # workers /\ workers'[w] # workers[w]
             /\ queue # <<>>) =>
                /\ workers'[w].pc = "transfer"
                /\ workers'[w].item = Head(queue)
                /\ queue' = Tail(queue)
                /\ heap'[Head(queue)].status = "downloading"
                /\ heap'[Head(queue)].attempts = 1
                /\ active' = active]_vars

\* C18 witness: one chain for two requests, suspended on the backoff delay of
\* the first while the second is still 'pending': one request is 'downloading'.
C18_Witness ==
    /\ Suspended
    /\ N = 2
    /\ opts.concurrency = 1
    /\ Req(1).status = "downloading"
    /\ Req(2).status = "pending"
    /\ workers[1].pc = "sleep"
    /\ workers[1].item = requests[1]
    /\ CountStatus(requests, "downloading") = 1

(***************************************************************************)
(* DownloadApp: init(), the three buttons, pickDirectory and startTask. A  *)
(* disabled button raises no click. The runDownloadTask call started last  *)
(* is followed step by step; a call still in flight when a later one is    *)
(* started goes on in `background`, where only its outcome is followed: it *)
(* settles with the requests that had failed, and any of those still open. *)
(***************************************************************************)
MaxBatches == 2
MaxPickers == 1

\* The retry counts entered in the form: none, or one retry.
AppRetries == {0, 1}

\* The transfer failure the batches of the app meet (`HTTP ${response.status}`).
AppFailureMessages == {"HTTP 404"}

\* What readConfig can return.
AppConfigs ==
    [concurrency : 1..MaxConcurrency,
     maxRetries : AppRetries,
     retryDelayMs : RetryDelays]

\* The options object of lines 415-422: the form's values, the directory and
\* an onProgress callback.
TaskOptions(config, directory) ==
    [concurrency |-> config.concurrency,
     maxRetries |-> config.maxRetries,
     retryDelayMs |-> config.retryDelayMs,
     onProgress |-> TRUE,
     directory |-> directory]

\* setRunningState deciding the retry button by the failed URLs alone.
setRunningStateRetryByFailures(a, running) ==
    [a EXCEPT !.isRunning = running,
              !.startDisabled = running,
              !.retryDisabled = ~(Len(a.failedUrls) > 0)]

\* DownloadApp.setRunningState(running) and DownloadAppView.setRunningState.
setRunningState(a, running) ==
    [a EXCEPT !.isRunning = running,
              !.startDisabled = running,
              !.retryDisabled = running \/ ~(Len(a.failedUrls) > 0)]

\* result.failures.map((item) => item.url)
FailureUrls(h, res) == [k \in 1..Len(res.failures) |-> h[res.failures[k]].url]

\* The message of line 425: the two counts of the result.
DoneMessage(res) == <<"done", Len(res.successes), Len(res.failures)>>

\* The call in flight as `background` keeps it: what is decided, and what is open.
Freeze ==
    [i \in 1..N |-> [url |-> Req(i).url,
                     status |-> IF Terminal(Req(i).status) THEN Req(i).status ELSE "open"]]

\* A second call of init(), lines 306-314: a new view, whose layout has the
\* start button enabled and the retry-failed button disabled; the state object
\* is kept.
ReInit ==
    /\ app' = [app EXCEPT !.startDisabled = FALSE,
                          !.retryDisabled = TRUE,
                          !.reinit = TRUE]
    /\ UNCHANGED <<phase, opts, heap, requests, queue, active, workers, log,
                   result, dispatched, transfers, waits, tampered>>

\* The batch is left alone by what the app does outside startTask.
BatchUnchanged ==
    UNCHANGED <<phase, opts, heap, requests, queue, active, workers, log,
                result, dispatched, transfers, waits, tampered>>

\* pickDirectory() up to `await window.showDirectoryPicker()`, lines 337-345;
\* supported: whether window.showDirectoryPicker exists.
PickDirectory(supported) ==
    /\ IF ~supported
       THEN app' = [app EXCEPT !.message = <<"no picker">>]
       ELSE /\ app.pickers < MaxPickers
            /\ app' = [app EXCEPT !.pickers = @ + 1]
    /\ BatchUnchanged

\* showDirectoryPicker() resolved with a handle, lines 346-349.
PickerResolves ==
    /\ app.pickers > 0
    /\ app' = [app EXCEPT !.pickers = @ - 1,
                          !.directoryHandle = TRUE,
                          !.message = <<"picked">>]
    /\ BatchUnchanged

\* showDirectoryPicker() rejected, lines 350-356; aborted: with an AbortError.
PickerRejects(aborted) ==
    /\ app.pickers > 0
    /\ app' = IF aborted
              THEN [app EXCEPT !.pickers = @ - 1]
              ELSE [app EXCEPT !.pickers = @ - 1, !.message = <<"pick failed">>]
    /\ BatchUnchanged

\* startTask(urls) up to `await runDownloadTask(...)`, lines 399-414.
startTask(urls, config, button) ==
    IF urls = <<>>
    THEN /\ app' = [app EXCEPT !.message = <<"no url">>]
         /\ BatchUnchanged
    ELSE /\ app.batches < MaxBatches
         /\ app' = [setRunningState(app, TRUE) EXCEPT
                        !.message = <<"downloading">>,
                        !.failedUrls = <<>>,
                        !.background = IF app.awaiting THEN Append(@, Freeze) ELSE @,
                        !.awaiting = TRUE,
                        !.urls = urls,
                        !.via = button,
                        !.batches = @ + 1]
         /\ CallRunDownloadTask(urls, TaskOptions(config, app.directoryHandle))
         /\ UNCHANGED tampered

\* The click handler of the start button, lines 324-327.
ClickStart(urls, config) ==
    /\ ~app.startDisabled
    /\ startTask(urls, config, "start")

\* The click handler of the retry-failed button, lines 328-331.
ClickRetryFailed(config) ==
    /\ ~app.retryDisabled
    /\ IF Len(app.failedUrls) = 0
       THEN UNCHANGED vars
       ELSE startTask(app.failedUrls, config, "retry")

\* TaskSettles forgetting the failures of the batch.
TaskSettlesForgetsFailures ==
    /\ app.awaiting
    /\ phase \in {"returned", "threw"}
    /\ app' = [setRunningState([app EXCEPT !.message = DoneMessage(result)], FALSE)
                  EXCEPT !.awaiting = FALSE]
    /\ BatchUnchanged

\* startTask after `await runDownloadTask(...)`, lines 424-433.
TaskSettles ==
    /\ app.awaiting
    /\ phase \in {"returned", "threw"}
    /\ LET settled == IF phase = "returned"
                      THEN [app EXCEPT !.failedUrls = FailureUrls(heap, result),
                                       !.message = DoneMessage(result)]
                      ELSE [app EXCEPT !.message = <<"task failed">>]
       IN app' = [setRunningState(settled, FALSE) EXCEPT !.awaiting = FALSE]
    /\ BatchUnchanged

\* The URLs of the entries of b at the positions in `at`, in order.
RECURSIVE UrlsAt(_, _, _)
UrlsAt(b, at, i) ==
    IF i > Len(b) THEN <<>>
    ELSE (IF i \in at THEN <<b[i].url>> ELSE <<>>) \o UrlsAt(b, at, i + 1)

RemoveAt(q, k) == [j \in 1..(Len(q) - 1) |-> IF j < k THEN q[j] ELSE q[j + 1]]

\* startTask after `await runDownloadTask(...)`, lines 424-433, for the k-th
\* earlier call: it returned with the requests that had failed and those of
\* `more`, which were open, as its failures.
BackgroundTaskSettles(k, more) ==
    /\ k \in 1..Len(app.background)
    /\ LET b == app.background[k]
           failed == {i \in 1..Len(b) : b[i].status = "failed"}
           open == {i \in 1..Len(b) : b[i].status = "open"}
       IN /\ more \subseteq open
          /\ app' = setRunningState(
                        [app EXCEPT !.failedUrls = UrlsAt(b, failed \cup more, 1),
                                    !.message = <<"done", Len(b) - Cardinality(failed \cup more),
                                                   Cardinality(failed \cup more)>>,
                                    !.background = RemoveAt(@, k)],
                        FALSE)
    /\ BatchUnchanged

NextApp ==
    \/ ReInit
    \/ \E supported \in BOOLEAN : PickDirectory(supported)
    \/ PickerResolves
    \/ \E aborted \in BOOLEAN : PickerRejects(aborted)
    \/ \E urls \in UrlLists, config \in AppConfigs : ClickStart(urls, config)
    \/ \E config \in AppConfigs : ClickRetryFailed(config)
    \/ TaskSettles
    \/ \E k \in 1..MaxBatches, more \in SUBSET (1..MaxUrls) : BackgroundTaskSettles(k, more)
    \/ \E w \in 1..MaxConcurrency : TransferSucceeds(w)
    \/ \E w \in 1..MaxConcurrency, m \in AppFailureMessages : TransferFails(w, m)
    \/ \E w \in 1..MaxConcurrency, m \in WriteFailureMessages : WriteFails(w, m)
    \/ \E w \in 1..MaxConcurrency : BackoffExpires(w)
    \/ \E w \in 1..MaxConcurrency : WorkerResumes(w)
    \/ \E w \in 1..MaxConcurrency : FrameReturns(w)
    \/ Join

SpecApp == Init /\ [][NextApp]_vars

\* No processNext chain is alive.
NoChainAlive == \A w \in DOMAIN workers : workers[w].pc = "done"

\* C19: from the start of a non-empty batch by startTask until its
\* runDownloadTask call has settled and startTask has resumed, isRunning is
\* true and both buttons are disabled; when startTask resumes, after a return
\* or a throw, isRunning is false and the start button enabled again; the
\* retry-failed button is enabled only when not running and failedUrls is not
\* empty; a batch is only ever started while none is in flight.
C19_OneBatchInFlight ==
    /\ [](app.awaiting =>
            /\ app.isRunning
            /\ app.startDisabled
            /\ app.retryDisabled
            /\ phase \in {"running", "returned", "threw"})
    /\ [](phase = "running" => app.awaiting)
    /\ [](~app.awaiting => ~app.isRunning /\ ~app.startDisabled)
    /\ [](~app.retryDisabled => ~app.isRunning /\ Len(app.failedUrls) > 0)
    /\ [][(app.awaiting /\ ~app'.awaiting) =>
            /\ phase \in {"returned", "threw"}
            /\ ~app'.isRunning
            /\ ~app'.startDisabled]_vars
    /\ [][app'.batches # app.batches =>
            /\ ~app.isRunning
            /\ ~app.awaiting
            /\ phase # "running"
            /\ NoChainAlive
            /\ app'.isRunning
            /\ app'.awaiting]_vars

\* C19 witness: two batches in flight. init() was called again while the first
\* batch ran, the start button of the new view started a second one, and the
\* first has settled since: isRunning is false and the start button enabled
\* while a transfer of the second batch is awaited.
C19_Witness ==
    /\ app.reinit
    /\ app.batches = 2
    /\ app.awaiting
    /\ phase = "running"
    /\ \E w \in DOMAIN workers : workers[w].pc = "transfer"
    /\ app.background = <<>>
    /\ ~app.isRunning
    /\ ~app.startDisabled

\* The URLs of the requests of the current batch that are 'failed', in order.
FailedUrlsOfBatch ==
    LET failed == SelectSeq(requests, LAMBDA a : heap[a].status = "failed")
    IN [k \in 1..Len(failed) |-> heap[failed[k]].url]

\* C20: after any sequence of start and retry-failed actions (and of directory
\* picks; init() not called again), failedUrls is empty while a batch runs;
\* once a batch has returned and startTask has resumed, failedUrls is the URLs,
\* in order, of the requests of that batch that failed (the requests of a batch
\* carry the URLs submitted); a batch started by the retry-failed button is
\* given exactly the failedUrls of the batch before, which were not empty; with
\* no failed URL the retry-failed action starts nothing.
C20_FailedUrls ==
    /\ []((~app.reinit /\ app.awaiting) => app.failedUrls = <<>>)
    /\ []((~app.reinit /\ phase \in {"running", "returned"}) =>
            /\ N = Len(app.urls)
            /\ \A i \in 1..N : Req(i).url = app.urls[i])
    /\ []((~app.reinit /\ ~app.awaiting /\ app.batches > 0) =>
            /\ phase = "returned"
            /\ app.failedUrls = FailedUrlsOfBatch
            /\ Len(app.failedUrls) = Len(result.failures))
    /\ [][(~app'.reinit /\ app'.batches # app.batches /\ app'.via = "retry") =>
            /\ app.failedUrls # <<>>
            /\ app'.urls = app.failedUrls
            /\ app.failedUrls = FailedUrlsOfBatch
            /\ Len(requests') = Len(app.failedUrls)
            /\ \A i \in 1..Len(requests') : heap'[requests'[i]].url = app.failedUrls[i]]_vars
    /\ [][(~app'.reinit /\ app.failedUrls = <<>> /\ app'.batches # app.batches)
            => app'.via = "start"]_vars

\* C20 witness: with init() called once, the second batch was started by the
\* retry-failed button with the one URL that failed in a first batch of two,
\* and has returned with that URL failed again, on a write to the directory
\* picked in between.
C20_Witness ==
    /\ ~app.reinit
    /\ app.batches = 2
    /\ app.via = "retry"
    /\ ~app.awaiting
    /\ phase = "returned"
    /\ N = 1
    /\ app.urls = <<"https://a/b/">>
    /\ app.failedUrls = app.urls
    /\ Req(1).error = "Write failed"
    /\ ~app.retryDisabled

====
